---- MODULE Spec2Model ----
(***************************************************************************)
(* Model of sourcebit-source-filesystem: the models matcher                *)
(* (matchObjectsToModels, addMetadata, mapObjectField,                     *)
(* urlPathFromFilePath, mergeDataObjects) and the plugin's bootstrap /     *)
(* transform / watch-mode reload.                                          *)
(***************************************************************************)
EXTENDS Naturals, Sequences, FiniteSets, TLC

VARIABLES
    pc,             \* position of the program / of the call under study
    args,           \* arguments of the function call under study
    ret,            \* values returned by the function call under study
    pluginContext,  \* the plugin context: [files, config]
    output,         \* what transform() produced
    watch           \* watch-mode state of bootstrap()

vars == <<pc, args, ret, pluginContext, output, watch>>

None == <<>>

(***************************************************************************)
(* Parsed content (JSON-like values).  A value is a string, a plain object *)
(* (a function from keys to values) or an array (a sequence of values).    *)
(* The kind is carried in k; the three payload fields keep one type each.  *)
(***************************************************************************)
Str(s) == [k |-> "str", s |-> s, o |-> <<>>, a |-> <<>>]
Obj(f) == [k |-> "obj", s |-> "", o |-> f, a |-> <<>>]
Arr(q) == [k |-> "arr", s |-> "", o |-> <<>>, a |-> q]

isPlainObject(v) == v.k = "obj"
isArray(v) == v.k = "arr"

\* _.has(value, key): own property of an object; false for scalars.
\* (arrays of parsed content carry no named properties)
has(v, key) == v.k = "obj" /\ key \in DOMAIN v.o

\* _.get(value, key) for a value known to have the key
get(v, key) == v.o[key]

\* _.assign({}, a, b) on the key->value maps of two objects
assign(f, g) == [x \in (DOMAIN f) \cup (DOMAIN g) |-> IF x \in DOMAIN g THEN g[x] ELSE f[x]]

(***************************************************************************)
(* Strings at character level (TLC evaluates \o, Len and SubSeq on         *)
(* strings).                                                               *)
(***************************************************************************)
charAt(s, i) == SubSeq(s, i, i)

\* The characters that occur in the modelled paths, in code-unit order.
Ascii == "-./0123456789ABCDEFGHIJKLMNOPQRSTUVWXYZ_abcdefghijklmnopqrstuvwxyz"
UpperChars == "ABCDEFGHIJKLMNOPQRSTUVWXYZ"
LowerChars == "abcdefghijklmnopqrstuvwxyz"

indexIn(alphabet, c) ==
    IF \E i \in 1..Len(alphabet) : charAt(alphabet, i) = c
    THEN CHOOSE i \in 1..Len(alphabet) : charAt(alphabet, i) = c
    ELSE 0

charCode(c) == indexIn(Ascii, c)

lowerChar(c) ==
    IF indexIn(UpperChars, c) > 0 THEN charAt(LowerChars, indexIn(UpperChars, c)) ELSE c

RECURSIVE toLowerCase(_)
toLowerCase(s) ==
    IF Len(s) = 0 THEN "" ELSE lowerChar(charAt(s, 1)) \o toLowerCase(SubSeq(s, 2, Len(s)))

\* JavaScript's s < t on strings: lexicographic by code unit.
RECURSIVE strLess(_, _)
strLess(s, t) ==
    IF Len(t) = 0 THEN FALSE
    ELSE IF Len(s) = 0 THEN TRUE
    ELSE IF charAt(s, 1) = charAt(t, 1)
         THEN strLess(SubSeq(s, 2, Len(s)), SubSeq(t, 2, Len(t)))
         ELSE charCode(charAt(s, 1)) < charCode(charAt(t, 1))

\* Positions of character c in s.
positions(s, c) == {i \in 1..Len(s) : charAt(s, i) = c}

Max(S) == CHOOSE m \in S : \A n \in S : n <= m

\* String.prototype.split(sep) for a one-character separator.
RECURSIVE split(_, _)
split(s, sep) ==
    IF positions(s, sep) = {} THEN <<s>>
    ELSE LET i == CHOOSE p \in positions(s, sep) : \A q \in positions(s, sep) : p <= q
         IN <<SubSeq(s, 1, i - 1)>> \o split(SubSeq(s, i + 1, Len(s)), sep)

\* Array.prototype.join(sep)
RECURSIVE join(_, _)
join(parts, sep) ==
    IF Len(parts) = 0 THEN ""
    ELSE IF Len(parts) = 1 THEN parts[1]
    ELSE parts[1] \o sep \o join(Tail(parts), sep)

\* _.compact on an array of strings: drops the empty ones.
RECURSIVE compact(_)
compact(parts) ==
    IF Len(parts) = 0 THEN <<>>
    ELSE IF parts[1] = "" THEN compact(Tail(parts))
    ELSE <<parts[1]>> \o compact(Tail(parts))

\* path.sep of the posix build
pathSep == "/"

\* path.parse(p) (posix) for a relative path that does not end in a separator:
\* dir is what precedes the last separator, base what follows it; ext starts
\* at the last dot of base unless that dot is base's first character.
pathParse(p) ==
    LET slashes == positions(p, pathSep)
        cut == IF slashes = {} THEN 0 ELSE Max(slashes)
        dir == IF cut <= 1 THEN SubSeq(p, 1, cut) ELSE SubSeq(p, 1, cut - 1)
        base == SubSeq(p, cut + 1, Len(p))
        dots == positions(base, ".")
        dot == IF dots = {} THEN 0 ELSE Max(dots)
        name == IF dot <= 1 THEN base ELSE SubSeq(base, 1, dot - 1)
        ext == IF dot <= 1 THEN "" ELSE SubSeq(base, dot, Len(base))
    IN [dir |-> dir, base |-> base, name |-> name, ext |-> ext]

\* urlPathFromFilePath with the 'index' test made after lower-casing
urlPathIndexCaseInsensitive(filePath) ==
    LET pathObject == pathParse(filePath)
        dirParts == compact(split(pathObject.dir, pathSep))
        parts == IF toLowerCase(pathObject.name) # "index"
                 THEN Append(dirParts, pathObject.name) ELSE dirParts
    IN "/" \o toLowerCase(join(parts, "/"))

\* urlPathFromFilePath (models-matcher)
urlPathFromFilePath(filePath) ==
    LET pathObject == pathParse(filePath)
        dirParts == compact(split(pathObject.dir, pathSep))
        parts == IF pathObject.name # "index" THEN Append(dirParts, pathObject.name) ELSE dirParts
        urlPath == toLowerCase(join(parts, "/"))
    IN "/" \o urlPath

(***************************************************************************)
(* Schema declarations.  A model and a field declaration have the same     *)
(* shape; an attribute that may be absent is a sequence of length 0 or 1.  *)
(***************************************************************************)
Decl(type, name, label, fields, models, items) ==
    [type |-> type, name |-> name, label |-> label, fields |-> fields,
     models |-> models, items |-> items, layout |-> <<>>]

\* _.find(...) || _.head(fields): falls back to the first declaration
findFieldOrFirst(fields, fieldName) ==
    LET hits == {i \in 1..Len(fields) : fields[i].name = <<fieldName>>}
    IN IF hits # {} THEN <<fields[CHOOSE i \in hits : \A j \in hits : i <= j]>>
       ELSE IF Len(fields) > 0 THEN <<fields[1]>> ELSE <<>>

\* _.find(fields, {name: fieldName}): the first declaration of that name
findField(fields, fieldName) ==
    LET hits == {i \in 1..Len(fields) : fields[i].name = <<fieldName>>}
    IN IF hits = {} THEN <<>> ELSE <<fields[CHOOSE i \in hits : \A j \in hits : i <= j]>>

\* _.keyBy(models, 'name'): the last model of a name wins
keyBy(models) ==
    [n \in {models[i].name[1] : i \in 1..Len(models)} |->
        models[Max({i \in 1..Len(models) : models[i].name = <<n>>})]]

\* _.has(modelsByName, v) for the value v read from a 'type' property
hasModel(modelsByName, v) == v.k = "str" /\ v.s \in DOMAIN modelsByName

\* _.get(data, '__metadata') as the map that _.assign copies from: the keys of
\* the object found there (parsed content keeps a mapping under __metadata)
metadataOf(f) ==
    IF "__metadata" \in DOMAIN f /\ f["__metadata"].k = "obj" THEN f["__metadata"].o ELSE <<>>

\* _.omitBy({modelType, modelName, modelLabel, urlPath}, _.isNil)
computedMetadata(model, filePath) ==
    LET opt(key, present, value) == IF present THEN key :> Str(value) ELSE <<>>
    IN assign(assign(assign(
           "modelType" :> Str(model.type),
           opt("modelName", Len(model.name) = 1, IF Len(model.name) = 1 THEN model.name[1] ELSE "")),
           opt("modelLabel", Len(model.label) = 1, IF Len(model.label) = 1 THEN model.label[1] ELSE "")),
           opt("urlPath", model.type = "page", urlPathFromFilePath(filePath)))

\* the merge with the existing entries taking precedence over the computed ones
mergeMetadataKeepExisting(existing, computed) == assign(computed, existing)

\* _.assign({}, _.get(data, '__metadata'), <computed>)
mergeMetadata(existing, computed) == assign(existing, computed)

\* the resolution with the first listed model used when 'type' is missing
resolveModelNameHeadFallback(fieldValue, fieldModel, modelsByName) ==
    IF Len(fieldModel.models) = 0 \/ Len(fieldModel.models[1]) < 1 THEN <<>>
    ELSE IF Len(fieldModel.models[1]) = 1 \/ ~has(fieldValue, "type") THEN
        IF Head(fieldModel.models[1]) \notin DOMAIN modelsByName THEN <<>>
        ELSE <<Head(fieldModel.models[1])>>
    ELSE IF ~hasModel(modelsByName, get(fieldValue, "type")) THEN <<>>
    ELSE <<get(fieldValue, "type").s>>

\* the model name a field of type 'model' resolves to for a value, or none
\* (every 'return fieldValue' of the branch)
resolveModelName(fieldValue, fieldModel, modelsByName) ==
    IF Len(fieldModel.models) = 0 \/ Len(fieldModel.models[1]) < 1 THEN <<>>
    ELSE IF Len(fieldModel.models[1]) = 1 THEN
        IF Head(fieldModel.models[1]) \notin DOMAIN modelsByName THEN <<>>
        ELSE <<Head(fieldModel.models[1])>>
    ELSE
        IF ~has(fieldValue, "type") THEN <<>>
        ELSE IF ~hasModel(modelsByName, get(fieldValue, "type")) THEN <<>>
        ELSE <<get(fieldValue, "type").s>>

\* the default items declaration taken to be an object
listItemModelDefaultObject(fieldModel) ==
    IF Len(fieldModel.items) = 1 THEN fieldModel.items[1]
    ELSE [type |-> "object", name |-> <<>>, label |-> <<>>, fields |-> <<>>,
          models |-> <<>>, items |-> <<>>, layout |-> <<>>]

\* _.get(fieldModel, 'items', {type: 'string'})
listItemModel(fieldModel) ==
    IF Len(fieldModel.items) = 1 THEN fieldModel.items[1]
    ELSE [type |-> "string", name |-> <<>>, label |-> <<>>, fields |-> <<>>,
          models |-> <<>>, items |-> <<>>, layout |-> <<>>]

RECURSIVE addMetadata(_, _, _)
RECURSIVE mapObjectField(_, _, _)
RECURSIVE mapItems(_, _, _)

\* addMetadata(data, model, {filePath, modelsByName}); ctx = [filePath, modelsByName].
\* dataFieldPath / modelFieldPath only feed the logged location and are left out.
addMetadata(data, model, ctx) ==
    LET fields == model.fields
    IN IF ~isPlainObject(data) THEN data
       ELSE LET mapped == [fieldName \in DOMAIN data.o |->
                              LET fieldModel == findField(fields, fieldName)
                              IN IF fieldModel = <<>> THEN data.o[fieldName]
                                 ELSE mapObjectField(data.o[fieldName], fieldModel[1], ctx)]
            IN Obj(assign(mapped,
                   "__metadata" :> Obj(mergeMetadata(metadataOf(mapped),
                                                     computedMetadata(model, ctx.filePath)))))

\* _.map(fieldValue, item => mapObjectField(item, itemModel, ...))
mapItems(items, itemModel, ctx) ==
    [i \in 1..Len(items) |-> mapObjectField(items[i], itemModel, ctx)]

\* mapObjectField(fieldValue, fieldModel, {filePath, modelsByName, ...})
mapObjectField(fieldValue, fieldModel, ctx) ==
    IF fieldModel.type = "object" THEN addMetadata(fieldValue, fieldModel, ctx)
    ELSE IF fieldModel.type = "model" THEN
        LET modelName == resolveModelName(fieldValue, fieldModel, ctx.modelsByName)
        IN IF modelName = <<>> THEN fieldValue
           ELSE addMetadata(fieldValue, ctx.modelsByName[modelName[1]], ctx)
    ELSE IF fieldModel.type = "reference" THEN
        IF has(fieldValue, "type") /\ hasModel(ctx.modelsByName, get(fieldValue, "type"))
        THEN addMetadata(fieldValue, ctx.modelsByName[get(fieldValue, "type").s], ctx)
        ELSE fieldValue
    ELSE IF fieldModel.type = "list" THEN
        IF ~isArray(fieldValue) THEN fieldValue
        ELSE Arr(mapItems(fieldValue.a, listItemModel(fieldModel), ctx))
    ELSE fieldValue

(***************************************************************************)
(* mergeDataObjects.  _.set stores the objects themselves in the           *)
(* accumulator, so a later _.set that walks through a stored object        *)
(* changes that object, which is also an element of the returned list.     *)
(* loc[i] is the key path at which object i is still reachable in the      *)
(* accumulator (<<>> when it is not); cur[i] is the object as the list     *)
(* holds it.                                                               *)
(***************************************************************************)
isObjectLike(v) == v.k \in {"obj", "arr"}

\* _.set(node, path, value): an intermediate value that is not an object is
\* replaced by {}; a named property set on an array is kept in its o field.
\* (no path segment of the modelled files is an array index)
RECURSIVE setIn(_, _, _)
setIn(node, path, value) ==
    LET key == Head(path)
    IN IF Len(path) = 1 THEN [node EXCEPT !.o = assign(node.o, key :> value)]
       ELSE LET child == IF key \in DOMAIN node.o /\ isObjectLike(node.o[key])
                         THEN node.o[key] ELSE Obj(<<>>)
            IN [node EXCEPT !.o = assign(node.o, key :> setIn(child, Tail(path), value))]

RECURSIVE getIn(_, _)
getIn(node, path) == IF Len(path) = 0 THEN node ELSE getIn(node.o[Head(path)], Tail(path))

IsPrefix(p, q) == Len(p) <= Len(q) /\ SubSeq(q, 1, Len(p)) = p

\* _.get(object, '__metadata.relSourcePath') (objectFileKeyPath)
fileKey(object) == object.o["__metadata"].o["relSourcePath"].s

\* the position at which index i goes into the sorted index list: after
\* every index whose key is not greater (the sort is stable)
RECURSIVE insertSorted(_, _, _)
insertSorted(sorted, i, objects) ==
    IF Len(sorted) = 0 THEN <<i>>
    ELSE IF strLess(fileKey(objects[i]), fileKey(objects[Head(sorted)]))
         THEN <<i>> \o sorted
         ELSE <<Head(sorted)>> \o insertSorted(Tail(sorted), i, objects)

RECURSIVE sortedUpTo(_, _)
sortedUpTo(objects, n) ==
    IF n = 0 THEN <<>> ELSE insertSorted(sortedUpTo(objects, n - 1), n, objects)

\* the objects taken in input order, unsorted
inputOrder(objects) == [i \in 1..Len(objects) |-> i]

\* _.sortBy(objects, objectFileKeyPath), as the order of the indices
sortByFileKey(objects) == sortedUpTo(objects, Len(objects))

\* _.compact(pathObject.dir.split(path.sep).concat(pathObject.name))
propPath(filePath) ==
    LET pathObject == pathParse(filePath)
    IN compact(Append(split(pathObject.dir, pathSep), pathObject.name))

\* the initial accumulator {__metadata: {id: `${source}:data`, source}}
mergeSeed(source) ==
    Obj("__metadata" :> Obj([id |-> Str(source \o ":data"), source |-> Str(source)]))

\* one step of the _.reduce: object i is set at its key path
mergeStep(st, i, objects) ==
    LET path == propPath(fileKey(objects[i]))
        accum == setIn(st.accum, path, objects[i])
        loc == [j \in 1..Len(objects) |->
                   IF j = i THEN <<path>>
                   ELSE IF st.loc[j] # <<>> /\ IsPrefix(path, st.loc[j][1]) THEN <<>>
                   ELSE st.loc[j]]
    IN [accum |-> accum,
        loc |-> loc,
        cur |-> [j \in 1..Len(objects) |->
                    IF loc[j] # <<>> THEN getIn(accum, loc[j][1]) ELSE st.cur[j]]]

RECURSIVE mergeFold(_, _, _)
mergeFold(st, order, objects) ==
    IF Len(order) = 0 THEN st
    ELSE mergeFold(mergeStep(st, Head(order), objects), Tail(order), objects)

\* mergeDataObjects(objects, objectFileKeyPath, source): the merged object, and
\* the input objects as they are once the merge has run
mergeDataObjects(objects, source) ==
    LET st == mergeFold([accum |-> mergeSeed(source),
                         loc |-> [j \in 1..Len(objects) |-> <<>>],
                         cur |-> objects],
                        sortByFileKey(objects), objects)
    IN [merged |-> st.accum, objects |-> st.cur]

(***************************************************************************)
(* matchObjectsToModels                                                    *)
(***************************************************************************)
\* _.matches({__metadata: {sourceName: 'pages'}})
pageObjectsPredicate(object) ==
    has(object, "__metadata") /\ has(get(object, "__metadata"), "sourceName")
    /\ get(get(object, "__metadata"), "sourceName") = Str("pages")

\* _.matches({__metadata: {sourceName: 'data'}})
dataObjectsPredicate(object) ==
    has(object, "__metadata") /\ has(get(object, "__metadata"), "sourceName")
    /\ get(get(object, "__metadata"), "sourceName") = Str("data")

\* _.get(object, '__metadata.id') (objectIdKeyPath)
objectId(object) == object.o["__metadata"].o["id"].s

\* What a call getModelByQuery(query, models) of @stackbit/sdk can return:
\* {error} or {model}, the model being one of the models passed.
getModelByQueryResults(models) ==
    {[error |-> TRUE, model |-> <<>>]}
        \cup {[error |-> FALSE, model |-> <<models[i]>>] : i \in 1..Len(models)}

\* the query of the call made for an object: what it passes to getModelByQuery
\* (file path, the value under the layout / type key, modelTypeKeyPath)
queryOf(object) ==
    IF pageObjectsPredicate(object)
    THEN <<fileKey(object),
           IF has(object, "frontmatter") /\ has(get(object, "frontmatter"), "layout")
           THEN <<get(get(object, "frontmatter"), "layout")>> ELSE <<>>,
           "layout">>
    ELSE <<fileKey(object),
           IF has(object, "type") THEN <<get(object, "type")>> ELSE <<>>,
           "name">>

\* the _.reduce building modelsByObjectIds: accum[objectId] = model for every
\* object whose getModelByQuery call returned a model.  results[i] is what
\* the call made for objects[i] returned.
RECURSIVE modelsByObjectIdsUpTo(_, _, _)
modelsByObjectIdsUpTo(objects, n, results) ==
    IF n = 0 THEN <<>>
    ELSE LET accum == modelsByObjectIdsUpTo(objects, n - 1, results)
         IN IF (pageObjectsPredicate(objects[n]) \/ dataObjectsPredicate(objects[n]))
               /\ ~results[n].error
            THEN assign(accum, objectId(objects[n]) :> results[n].model[1])
            ELSE accum

\* _.matches({__metadata: {modelType: 'data'}})
isDataObject(object) ==
    has(object, "__metadata") /\ has(get(object, "__metadata"), "modelType")
    /\ get(get(object, "__metadata"), "modelType") = Str("data")

\* the number of data objects among the first n
RECURSIVE dataRank(_, _)
dataRank(objects, n) ==
    IF n = 0 THEN 0 ELSE dataRank(objects, n - 1) + (IF isDataObject(objects[n]) THEN 1 ELSE 0)

\* _.filter(models, _.matches({type: 'page'}))
pageModelsOf(models) == LET isPage(m) == m.type = "page" IN SelectSeq(models, isPage)

\* _.filter(models, _.matches({type: 'data'}))
dataModelsOf(models) == LET isData(m) == m.type = "data" IN SelectSeq(models, isData)

\* matchObjectsToModels(objects, models, {..., source, mergeDataModels});
\* results[i] is what getModelByQuery returned for objects[i]
matchObjectsToModels(objects, models, source, mergeDataModels, results) ==
    LET modelsByName == keyBy(models)
        modelsByObjectIds == modelsByObjectIdsUpTo(objects, Len(objects), results)
        annotated == [i \in 1..Len(objects) |->
                         IF objectId(objects[i]) \notin DOMAIN modelsByObjectIds THEN objects[i]
                         ELSE addMetadata(objects[i], modelsByObjectIds[objectId(objects[i])],
                                          [filePath |-> fileKey(objects[i]),
                                           modelsByName |-> modelsByName])]
    IN IF ~mergeDataModels THEN annotated
       ELSE LET dataObjects == SelectSeq(annotated, isDataObject)
                m == mergeDataObjects(dataObjects, source)
            IN [i \in 1..Len(annotated) |->
                   IF isDataObject(annotated[i]) THEN m.objects[dataRank(annotated, i)]
                   ELSE annotated[i]] \o <<m.merged>>

(***************************************************************************)
(* SpecUrl: urlPathFromFilePath applied to the relative paths readFiles    *)
(* can produce: directory segments, a basename and an accepted extension.  *)
(***************************************************************************)
MaxDirDepth == 2

DirSegments == {"blog", "post-1", "Docs"}
BaseNames == {"index", "Index", "about", "post.v2", "README"}
\* a subset of the extensions readFiles accepts
Extensions == {".md", ".yaml", ".json"}

RECURSIVE SeqsUpTo(_, _)
SeqsUpTo(S, n) ==
    IF n = 0 THEN {<<>>}
    ELSE SeqsUpTo(S, n - 1) \cup {Append(q, x) : q \in SeqsUpTo(S, n - 1), x \in S}

\* the relative path of the file <dir...>/<name><ext>
relPath(dir, name, ext) == join(Append(dir, name \o ext), "/")

InitUrl ==
    /\ pc = "call"
    /\ \E dir \in SeqsUpTo(DirSegments, MaxDirDepth), name \in BaseNames, ext \in Extensions :
           args = [dir |-> dir, name |-> name, ext |-> ext, filePath |-> relPath(dir, name, ext)]
    /\ ret = None
    /\ pluginContext = None
    /\ output = None
    /\ watch = None

CallUrlPathFromFilePath ==
    /\ pc = "call"
    /\ ret' = urlPathFromFilePath(args.filePath)
    /\ pc' = "done"
    /\ UNCHANGED <<args, pluginContext, output, watch>>

NextUrl == CallUrlPathFromFilePath

SpecUrl == InitUrl /\ [][NextUrl]_vars

\* the lower-case spelling of each segment and basename, written out
LowerOf ==
    [x \in DirSegments \cup BaseNames |->
        CASE x = "Docs" -> "docs"
          [] x = "Index" -> "index"
          [] x = "README" -> "readme"
          [] OTHER -> x]

RECURSIVE slashed(_)
slashed(parts) == IF Len(parts) = 0 THEN "" ELSE "/" \o LowerOf[parts[1]] \o slashed(Tail(parts))

\* C7: urlPathFromFilePath returns, for every relative file path, '/' followed
\* by the lower-cased directory segments and the extension-stripped basename
\* joined by '/', the basename being dropped when it is exactly 'index'
\* (compared before lower-casing); 'blog/post-1/index.md' gives '/blog/post-1',
\* 'about.md' gives '/about' and 'index.md' gives '/'.
C7_UrlPath ==
    pc = "done" =>
        /\ LET parts == IF args.name = "index" THEN args.dir ELSE Append(args.dir, args.name)
           IN ret = (IF Len(parts) = 0 THEN "/" ELSE slashed(parts))
        /\ (args.filePath = "blog/post-1/index.md" => ret = "/blog/post-1")
        /\ (args.filePath = "about.md" => ret = "/about")
        /\ (args.filePath = "index.md" => ret = "/")

\* a capitalised 'Index' basename under a directory has been converted
C7_Witness ==
    pc = "done" /\ args.filePath = "Docs/post-1/Index.yaml" /\ ret = "/docs/post-1/index"

(***************************************************************************)
(* SpecAnnotate: mapObjectField and addMetadata applied to a field value   *)
(* and a field declaration, under a fixed schema.                          *)
(***************************************************************************)
MaxListLen == 2

NoFields == <<>>
StringField(name) == Decl("string", <<name>>, <<>>, NoFields, <<>>, <<>>)
TitleItems == Decl("object", <<>>, <<>>, <<StringField("title")>>, <<>>, <<>>)

\* the models of stackbit.yaml
HeroModel == Decl("object", <<"hero">>, <<"Hero">>, <<StringField("text")>>, <<>>, <<>>)
CtaModel ==
    Decl("object", <<"cta">>, <<>>,
         <<StringField("text"), Decl("list", <<"items">>, <<>>, NoFields, <<>>, <<TitleItems>>)>>,
         <<>>, <<>>)
PostModel ==
    [Decl("page", <<"post">>, <<"Post">>,
          <<StringField("title"),
            Decl("list", <<"sections">>, <<>>, NoFields, <<>>,
                 <<Decl("model", <<>>, <<>>, NoFields, <<<<"hero", "cta">>>>, <<>>)>>)>>,
          <<>>, <<>>) EXCEPT !.layout = <<"post">>]
PersonModel == Decl("data", <<"person">>, <<"Person">>, <<StringField("name")>>, <<>>, <<>>)
SchemaModels == <<HeroModel, CtaModel, PostModel, PersonModel>>

\* the declarations of the field "f" under study
FieldDecls ==
    { StringField("f"),
      Decl("object", <<"f">>, <<"Box">>, <<StringField("text")>>, <<>>, <<>>),
      Decl("model", <<"f">>, <<>>, NoFields, <<>>, <<>>),
      Decl("model", <<"f">>, <<>>, NoFields, <<<<>>>>, <<>>),
      Decl("model", <<"f">>, <<>>, NoFields, <<<<"hero">>>>, <<>>),
      Decl("model", <<"f">>, <<>>, NoFields, <<<<"ghost">>>>, <<>>),
      Decl("model", <<"f">>, <<>>, NoFields, <<<<"hero", "cta">>>>, <<>>),
      Decl("reference", <<"f">>, <<>>, NoFields, <<>>, <<>>),
      Decl("list", <<"f">>, <<>>, NoFields, <<>>, <<>>),
      Decl("list", <<"f">>, <<>>, NoFields, <<>>, <<TitleItems>>),
      Decl("list", <<"f">>, <<>>, NoFields, <<>>,
           <<Decl("model", <<>>, <<>>, NoFields, <<<<"hero", "cta">>>>, <<>>)>>) }

StaleMetadata ==
    Obj([id |-> Str("x"), modelType |-> Str("old"), modelName |-> Str("stale"),
         modelLabel |-> Str("Stale"), urlPath |-> Str("/old")])

\* the values a list element or a single field can hold
Elements ==
    { Str("plain"),
      Obj([text |-> Str("Go")]),
      Obj([type |-> Str("cta"), text |-> Str("Go")]),
      Obj([type |-> Str("hero"), title |-> Str("a"), __metadata |-> StaleMetadata]),
      Obj([type |-> Str("post"), title |-> Str("b")]),
      Obj([type |-> Str("ghost")]),
      Obj([type |-> Str("cta"), items |-> Arr(<<Obj([title |-> Str("a")]), Str("b")>>)]) }

FieldValues == Elements \cup {Arr(q) : q \in SeqsUpTo(Elements, MaxListLen)}

\* the metadata the enclosing object already carries
ExistingMetadata ==
    { <<>>,
      "__metadata" :> Obj([id |-> Str("content/a.md"), custom |-> Str("kept")]),
      "__metadata" :> StaleMetadata }

\* the models that enclose the field "f": a page model, a data model without
\* label, a named object declaration and an unnamed one (a list's items)
EnclosingModels(decl) ==
    { Decl("page", <<"landing">>, <<"Landing">>, <<decl>>, <<>>, <<>>),
      Decl("data", <<"settings">>, <<>>, <<decl>>, <<>>, <<>>),
      Decl("object", <<"box">>, <<"Box">>, <<decl>>, <<>>, <<>>),
      Decl("object", <<>>, <<>>, <<decl>>, <<>>, <<>>) }

AnnotateFilePath == "Blog/post-1/Index.md"

InitAnnotate ==
    /\ pc = "call"
    /\ \E value \in FieldValues, decl \in FieldDecls, meta \in ExistingMetadata :
         \E model \in EnclosingModels(decl) :
           args = [fieldValue |-> value, fieldModel |-> decl,
                   data |-> Obj(assign("f" :> value, meta)), model |-> model,
                   ctx |-> [filePath |-> AnnotateFilePath, modelsByName |-> keyBy(SchemaModels)]]
    /\ ret = [mapped |-> None, annotated |-> None, again |-> None]
    /\ pluginContext = None
    /\ output = None
    /\ watch = None

CallMapObjectField ==
    /\ pc = "call"
    /\ ret' = [ret EXCEPT !.mapped = mapObjectField(args.fieldValue, args.fieldModel, args.ctx)]
    /\ pc' = "mapped"
    /\ UNCHANGED <<args, pluginContext, output, watch>>

CallAddMetadata ==
    /\ pc = "mapped"
    /\ ret' = [ret EXCEPT !.annotated = addMetadata(args.data, args.model, args.ctx)]
    /\ pc' = "annotated"
    /\ UNCHANGED <<args, pluginContext, output, watch>>

CallAddMetadataAgain ==
    /\ pc = "annotated"
    /\ ret' = [ret EXCEPT !.again = addMetadata(ret.annotated, args.model, args.ctx)]
    /\ pc' = "again"
    /\ UNCHANGED <<args, pluginContext, output, watch>>

NextAnnotate == CallMapObjectField \/ CallAddMetadata \/ CallAddMetadataAgain

SpecAnnotate == InitAnnotate /\ [][NextAnnotate]_vars

\* the __metadata entries of a value (none for a value without them)
metaOf(v) == IF v.k = "obj" THEN metadataOf(v.o) ELSE <<>>

ComputedKeys == {"modelType", "modelName", "modelLabel", "urlPath"}

IsMultiModel(decl) ==
    decl.type = "model" /\ Len(decl.models) = 1 /\ Len(decl.models[1]) > 1

AllowedModels(decl) == {decl.models[1][i] : i \in 1..Len(decl.models[1])}

NamesOneOf(v, names) == has(v, "type") /\ get(v, "type").k = "str" /\ get(v, "type").s \in names

\* r is v annotated with the model its 'type' names
AnnotatedAsItsType(v, r) ==
    /\ r # v
    /\ "modelName" \in DOMAIN metaOf(r)
    /\ metaOf(r)["modelName"] = get(v, "type")

\* the (value, result) pairs of the call that went through a multi-model field:
\* the field itself, or the elements of a list whose items are one
MultiModelPairs ==
    IF IsMultiModel(args.fieldModel) THEN {<<args.fieldValue, ret.mapped>>}
    ELSE IF /\ args.fieldModel.type = "list" /\ Len(args.fieldModel.items) = 1
            /\ IsMultiModel(args.fieldModel.items[1]) /\ isArray(args.fieldValue)
         THEN {<<args.fieldValue.a[i], ret.mapped.a[i]>> : i \in 1..Len(args.fieldValue.a)}
         ELSE {}

MultiModelDecl ==
    IF IsMultiModel(args.fieldModel) THEN args.fieldModel ELSE args.fieldModel.items[1]

\* C2 as stated: a multi-model field annotates its value (modelName = the
\* value's 'type') only when 'type' names one of the models of the field's
\* 'models' list; otherwise the value is returned unchanged.
C2_AsStated ==
    pc # "call" =>
        \A p \in MultiModelPairs :
            IF NamesOneOf(p[1], AllowedModels(MultiModelDecl))
            THEN AnnotatedAsItsType(p[1], p[2])
            ELSE p[2] = p[1]

\* C2 amended: a multi-model field annotates its value (modelName = the value's
\* 'type') exactly when 'type' names an existing model of the schema, listed in
\* the field's 'models' or not; when 'type' is missing or names no existing
\* model the value is returned unchanged.
C2_ExistingModel ==
    pc # "call" =>
        \A p \in MultiModelPairs :
            IF NamesOneOf(p[1], DOMAIN args.ctx.modelsByName)
            THEN AnnotatedAsItsType(p[1], p[2])
            ELSE p[2] = p[1]

\* a multi-model field has annotated {type: 'cta', text: 'Go'} as cta and has
\* returned {text: 'Go'} unchanged, in one list
C2_Witness ==
    /\ pc = "mapped"
    /\ args.fieldModel.type = "list"
    /\ MultiModelPairs # {}
    /\ args.fieldValue.a = <<Obj([type |-> Str("cta"), text |-> Str("Go")]), Obj([text |-> Str("Go")])>>
    /\ metaOf(ret.mapped.a[1])["modelName"] = Str("cta")
    /\ ret.mapped.a[2] = Obj([text |-> Str("Go")])

\* C4: addMetadata applied to its own output (same model, file path and schema)
\* returns that output again, nested __metadata included.
C4_Idempotent == pc = "again" => ret.again = ret.annotated

\* the second pass ran over an object whose field is a list holding an
\* annotated element and an element that failed its shape check
C4_Witness ==
    /\ pc = "again"
    /\ args.fieldModel.type = "list"
    /\ isArray(ret.annotated.o["f"])
    /\ Len(ret.annotated.o["f"].a) = 2
    /\ \E i, j \in 1..2 : /\ "modelType" \in DOMAIN metaOf(ret.annotated.o["f"].a[i])
                          /\ ret.annotated.o["f"].a[j] = Str("plain")
    /\ "modelType" \in DOMAIN metaOf(ret.annotated)

\* after is before with __metadata extended by what model computes
MetadataExtended(before, after, model, urlPath) ==
    LET old == metaOf(before)
        new == metaOf(after)
        kept(key) == (key \in DOMAIN new) = (key \in DOMAIN old)
                     /\ (key \in DOMAIN old => new[key] = old[key])
    IN /\ \A key \in DOMAIN old \ ComputedKeys : key \in DOMAIN new /\ new[key] = old[key]
       /\ DOMAIN new \subseteq DOMAIN old \cup ComputedKeys
       /\ "modelType" \in DOMAIN new /\ new["modelType"] = Str(model.type)
       /\ IF Len(model.name) = 1
          THEN "modelName" \in DOMAIN new /\ new["modelName"] = Str(model.name[1])
          ELSE kept("modelName")
       /\ IF Len(model.label) = 1
          THEN "modelLabel" \in DOMAIN new /\ new["modelLabel"] = Str(model.label[1])
          ELSE kept("modelLabel")
       /\ IF model.type = "page"
          THEN "urlPath" \in DOMAIN new /\ new["urlPath"] = Str(urlPath)
          ELSE kept("urlPath")

\* C5: addMetadata only extends __metadata: every entry already present under
\* a key that is not computed stays as it was; modelType, modelName and
\* modelLabel are those of the model; urlPath is written only for a page model;
\* a computed key the model has no value for is not written (it keeps whatever
\* the node already had, and is absent otherwise).
C5_MetadataExtended ==
    /\ pc \in {"annotated", "again"} =>
           MetadataExtended(args.data, ret.annotated, args.model, "/blog/post-1/index")
    /\ (pc # "call" /\ args.fieldModel.type = "object" /\ isPlainObject(args.fieldValue)) =>
           MetadataExtended(args.fieldValue, ret.mapped, args.fieldModel, "")
    /\ (pc # "call" /\ args.fieldModel.type = "reference" /\ NamesOneOf(args.fieldValue, {"post"})) =>
           MetadataExtended(args.fieldValue, ret.mapped, PostModel, "/blog/post-1/index")

\* an unnamed, unlabelled object model was applied to an object that already
\* carried computed keys and an id
C5_Witness ==
    /\ pc = "annotated"
    /\ args.model.type = "object" /\ args.model.name = <<>>
    /\ metaOf(args.data) = StaleMetadata.o
    /\ metaOf(ret.annotated) = [StaleMetadata.o EXCEPT !["modelType"] = Str("object")]

ListPairs(v, r) == {<<v.a[i], r.a[i]>> : i \in 1..Len(v.a)}

\* what C8 states of a list field, but for the clause on urlPath
ListMapped(v, r, decl, ctx) ==
    IF ~isArray(v) THEN r = v
    ELSE /\ isArray(r) /\ Len(r.a) = Len(v.a)
         /\ \A i \in 1..Len(v.a) :
                r.a[i] = mapObjectField(v.a[i],
                                        IF Len(decl.items) = 1 THEN decl.items[1]
                                        ELSE StringField("item"), ctx)
         /\ (Len(decl.items) = 0 => r = v)
         /\ (decl.items = <<TitleItems>> =>
                \A p \in ListPairs(v, r) :
                    IF isPlainObject(p[1])
                    THEN /\ "modelType" \in DOMAIN metaOf(p[2])
                         /\ metaOf(p[2])["modelType"] = Str("object")
                    ELSE p[2] = p[1])

\* the enclosing object was annotated around the mapped list
EnclosingAnnotated ==
    pc \in {"annotated", "again"} =>
        /\ ret.annotated.o["f"] = ret.mapped
        /\ metaOf(ret.annotated)["modelType"] = Str(args.model.type)

\* C8 as stated: a non-array value of a list field is returned unchanged; an
\* array keeps its length and order, element i being the dispatch of element i
\* on 'items' (string when absent); with object items every plain-object
\* element carries modelType 'object' and no urlPath, and a failing element is
\* returned unchanged while the others and the enclosing object are annotated.
C8_AsStated ==
    (pc # "call" /\ args.fieldModel.type = "list") =>
        /\ ListMapped(args.fieldValue, ret.mapped, args.fieldModel, args.ctx)
        /\ EnclosingAnnotated
        /\ (args.fieldModel.items = <<TitleItems>> /\ isArray(args.fieldValue)) =>
               \A p \in ListPairs(args.fieldValue, ret.mapped) :
                   isPlainObject(p[1]) => "urlPath" \notin DOMAIN metaOf(p[2])

\* C8 amended: as stated, except that an element is given no urlPath: a
\* plain-object element carries a urlPath after the call only if it already
\* carried that urlPath in its own __metadata.
C8_ListField ==
    (pc # "call" /\ args.fieldModel.type = "list") =>
        /\ ListMapped(args.fieldValue, ret.mapped, args.fieldModel, args.ctx)
        /\ EnclosingAnnotated
        /\ (args.fieldModel.items = <<TitleItems>> /\ isArray(args.fieldValue)) =>
               \A p \in ListPairs(args.fieldValue, ret.mapped) :
                   isPlainObject(p[1]) =>
                       /\ ("urlPath" \in DOMAIN metaOf(p[2])) = ("urlPath" \in DOMAIN metaOf(p[1]))
                       /\ ("urlPath" \in DOMAIN metaOf(p[1]) =>
                               metaOf(p[2])["urlPath"] = metaOf(p[1])["urlPath"])

\* a list with object items held a plain object and a string: the object was
\* annotated as 'object' without urlPath, the string came back unchanged, and
\* the enclosing page object was annotated
C8_Witness ==
    /\ pc = "annotated"
    /\ args.fieldModel.items = <<TitleItems>>
    /\ args.fieldValue = Arr(<<Obj([text |-> Str("Go")]), Str("plain")>>)
    /\ ret.mapped = Arr(<<Obj([text |-> Str("Go"),
                               __metadata |-> Obj([modelType |-> Str("object")])]),
                          Str("plain")>>)
    /\ args.model.type = "page"
    /\ metaOf(ret.annotated)["urlPath"] = Str("/blog/post-1/index")

(***************************************************************************)
(* SpecMerge: mergeDataObjects applied to a list of annotated data objects *)
(* and to a permutation of that list.                                      *)
(***************************************************************************)
MaxMergeObjects == 3

SOURCE == "sourcebit-source-filesystem"

\* a data object as matchObjectsToModels hands it to mergeDataObjects
DataObject(id, relSourcePath, content) ==
    Obj(assign(content,
               "__metadata" :> Obj([id |-> Str(id), source |-> Str(SOURCE),
                                    sourceName |-> Str("data"),
                                    relSourcePath |-> Str(relSourcePath),
                                    modelType |-> Str("data"), modelName |-> Str("person")])))

\* team.md exists under two data sources, a and b
MergeObjects ==
    { DataObject("a/team.md", "team.md", [name |-> Str("A")]),
      DataObject("b/team.md", "team.md", [name |-> Str("B")]),
      DataObject("a/team.yaml", "team.yaml", [name |-> Str("C"), alice |-> Str("inline")]),
      DataObject("a/team/alice.md", "team/alice.md", [name |-> Str("D")]),
      DataObject("a/index.json", "index.json", [name |-> Str("E")]) }

\* the lists of n distinct elements of S
Arrangements(S, n) == {q \in [1..n -> S] : \A i, j \in 1..n : q[i] = q[j] => i = j}

Range(q) == {q[i] : i \in 1..Len(q)}

InitMerge ==
    /\ pc = "call"
    /\ \E n \in 0..MaxMergeObjects :
         \E objects \in Arrangements(MergeObjects, n) :
           \E permuted \in {q \in Arrangements(MergeObjects, n) : Range(q) = Range(objects)} :
             args = [objects |-> objects, permuted |-> permuted]
    /\ ret = [merged |-> None, mergedPermuted |-> None]
    /\ pluginContext = None
    /\ output = None
    /\ watch = None

CallMergeDataObjects ==
    /\ pc = "call"
    /\ ret' = [ret EXCEPT !.merged = mergeDataObjects(args.objects, SOURCE).merged]
    /\ pc' = "merged"
    /\ UNCHANGED <<args, pluginContext, output, watch>>

CallMergeDataObjectsPermuted ==
    /\ pc = "merged"
    /\ ret' = [ret EXCEPT !.mergedPermuted = mergeDataObjects(args.permuted, SOURCE).merged]
    /\ pc' = "both"
    /\ UNCHANGED <<args, pluginContext, output, watch>>

NextMerge == CallMergeDataObjects \/ CallMergeDataObjectsPermuted

SpecMerge == InitMerge /\ [][NextMerge]_vars

\* the key path a data object is merged at, derived from its file name
KeyPathOf(object) ==
    CASE fileKey(object) = "team.md" -> <<"team">>
      [] fileKey(object) = "team.yaml" -> <<"team">>
      [] fileKey(object) = "team/alice.md" -> <<"team", "alice">>
      [] fileKey(object) = "index.json" -> <<"index">>

\* b is the one object of the list whose file path sorts last among those
\* deriving b's key path, and another object derives that key path
WinsItsKeyPath(b, objects) ==
    /\ \E a \in Range(objects) : a # b /\ KeyPathOf(a) = KeyPathOf(b)
    /\ \A a \in Range(objects) :
           (a # b /\ KeyPathOf(a) = KeyPathOf(b)) => strLess(fileKey(a), fileKey(b))

\* the first segments below key path K of the objects merged beneath K
NestedKeys(K, objects) ==
    {KeyPathOf(x)[Len(K) + 1] :
        x \in {y \in Range(objects) : Len(KeyPathOf(y)) > Len(K) /\ IsPrefix(K, KeyPathOf(y))}}

\* C3 as stated: the merged tree is the same for every permutation of the
\* input list, and when two objects derive the same key path the value at
\* that key path is the object whose relative file path sorts last.
C3_AsStated ==
    pc = "both" =>
        /\ ret.merged = ret.mergedPermuted
        /\ \A b \in Range(args.objects) :
               WinsItsKeyPath(b, args.objects) => getIn(ret.merged, KeyPathOf(b)) = b

\* C3 amended: the merged tree is the same for every permutation of a list
\* whose relative file paths are pairwise distinct (objects of equal file path
\* are taken in input order); and when two objects derive the same key path
\* from different file paths, the value at that key path is the object whose
\* file path sorts last, with the objects of the files below that key path set
\* inside it: the same object when no file lies below.
C3_MergeOrder ==
    pc = "both" =>
        /\ (\A a, b \in Range(args.objects) : fileKey(a) = fileKey(b) => a = b)
               => ret.merged = ret.mergedPermuted
        /\ \A b \in Range(args.objects) :
               WinsItsKeyPath(b, args.objects) =>
                   LET at == getIn(ret.merged, KeyPathOf(b))
                       nested == NestedKeys(KeyPathOf(b), args.objects)
                   IN /\ at.k = "obj"
                      /\ DOMAIN at.o = DOMAIN b.o \cup nested
                      /\ \A key \in DOMAIN b.o \ nested : at.o[key] = b.o[key]
                      /\ (nested = {} => at = b)

\* team.yaml and team.md were merged, given in both orders: team.yaml's
\* object is at merged.team
C3_Witness ==
    /\ pc = "both"
    /\ Len(args.objects) = 2
    /\ fileKey(args.objects[1]) = "team.yaml" /\ fileKey(args.objects[2]) = "team.md"
    /\ args.permuted = <<args.objects[2], args.objects[1]>>
    /\ getIn(ret.merged, <<"team">>) = args.objects[1]
    /\ getIn(ret.mergedPermuted, <<"team">>) = args.objects[1]

(***************************************************************************)
(* Spec: the plugin.  bootstrap() loads stackbit.yaml and reads the        *)
(* content files of the sources into the plugin context; transform()       *)
(* matches the files to the models.                                        *)
(***************************************************************************)
MaxFiles == 3

\* the files that may exist under the project directory, with what parseFile
\* returns for each (<<>> when parseFile throws)
DiskFiles ==
    { [path |-> "pages/index.md",
       data |-> <<[frontmatter |-> Obj([layout |-> Str("post"), title |-> Str("Home")])]>>],
      [path |-> "pages/about.md",
       data |-> <<[frontmatter |-> Obj([layout |-> Str("ghost")])]>>],
      [path |-> "data/team.yaml",
       data |-> <<[type |-> Str("person"), name |-> Str("T")]>>],
      [path |-> "data/team/alice.yaml",
       data |-> <<[type |-> Str("person"), name |-> Str("A")]>>],
      [path |-> "data/__metadata.yaml",
       data |-> <<[type |-> Str("person")]>>],
      [path |-> "data/misc.json",
       data |-> <<[type |-> Str("ghost")]>>],
      [path |-> "data/broken.yaml", data |-> <<>>] }

\* the 'sources' option: not given, or given
SourcesOptions ==
    { <<>>,
      <<[name |-> "pages", path |-> "pages"], [name |-> "assets", path |-> "data"]>> }

\* stackbit.yaml: pagesDir and dataDir given, or left out
Configs ==
    { [models |-> SchemaModels, pagesDir |-> <<"pages">>, dataDir |-> <<"data">>],
      [models |-> SchemaModels, pagesDir |-> <<>>, dataDir |-> <<>>] }

\* whether project-relative path p lies under the source directory dir
isUnder(p, dir) == dir = "" \/ (Len(p) > Len(dir) + 1 /\ SubSeq(p, 1, Len(dir) + 1) = dir \o "/")

\* path.relative(absSourcePath, absFilePath)
relativeTo(p, dir) == IF dir = "" THEN p ELSE SubSeq(p, Len(dir) + 2, Len(p))

RECURSIVE setToSeq(_)
setToSeq(S) ==
    IF S = {} THEN <<>> ELSE LET x == CHOOSE y \in S : TRUE IN <<x>> \o setToSeq(S \ {x})

\* the object readFiles pushes for a parsed file of a source
fileObject(file, source) ==
    Obj(assign("__metadata" :> Obj([id |-> Str(file.path),
                                    source |-> Str(SOURCE),
                                    sourceName |-> Str(source.name),
                                    sourcePath |-> Str(source.path),
                                    relSourcePath |-> Str(relativeTo(file.path, source.path)),
                                    relProjectPath |-> Str(file.path)]),
               file.data[1]))

\* the files of one source, sorted by their path, each parsed; a file that
\* fails to parse is left out
readSource(source, disk) ==
    LET found == setToSeq({fileObject(f, source) :
                              f \in {g \in disk : isUnder(g.path, source.path) /\ g.data # <<>>}})
        order == sortByFileKey(found)
    IN [i \in 1..Len(found) |-> found[order[i]]]

\* readFiles(sources): the sources' objects, flattened in the order of the sources
RECURSIVE readFiles(_, _)
readFiles(sources, disk) ==
    IF Len(sources) = 0 THEN <<>>
    ELSE readSource(Head(sources), disk) \o readFiles(Tail(sources), disk)

Init ==
    /\ pc = "start"
    /\ args = None
    /\ ret = None
    /\ pluginContext = [files |-> <<>>, config |-> <<>>]
    /\ output = None
    /\ watch = None

\* bootstrap({setPluginContext, options, refresh}) without watch
Bootstrap ==
    /\ pc = "start"
    /\ \E disk \in {d \in SUBSET DiskFiles : Cardinality(d) <= MaxFiles},
          stackbitYaml \in {<<>>} \cup {<<c>> : c \in Configs},
          sourcesOption \in SourcesOptions,
          mergeDataModels \in BOOLEAN :
         LET sources == IF stackbitYaml # <<>> /\ sourcesOption = <<>>
                        THEN <<[name |-> "pages",
                                path |-> IF stackbitYaml[1].pagesDir = <<>> THEN ""
                                         ELSE stackbitYaml[1].pagesDir[1]],
                               [name |-> "data",
                                path |-> IF stackbitYaml[1].dataDir = <<>> THEN ""
                                         ELSE stackbitYaml[1].dataDir[1]]>>
                        ELSE sourcesOption
         IN /\ args' = [sources |-> sources, mergeDataModels |-> mergeDataModels]
            /\ pluginContext' = [files |-> readFiles(sources, disk), config |-> stackbitYaml]
    /\ pc' = "bootstrapped"
    /\ UNCHANGED <<ret, output, watch>>

\* the results getModelByQuery can return for the objects: a page object is
\* queried against the page models and a data object against the data models,
\* and equal queries get equal results
QueryResults(objects, models) ==
    {results \in [1..Len(objects) ->
                     getModelByQueryResults(pageModelsOf(models) \o dataModelsOf(models))] :
        /\ \A i \in 1..Len(objects) :
               results[i] \in
                   IF pageObjectsPredicate(objects[i])
                   THEN getModelByQueryResults(pageModelsOf(models))
                   ELSE IF dataObjectsPredicate(objects[i])
                   THEN getModelByQueryResults(dataModelsOf(models))
                   ELSE {[error |-> TRUE, model |-> <<>>]}
        /\ \A i, j \in 1..Len(objects) :
               queryOf(objects[i]) = queryOf(objects[j]) => results[i] = results[j]}

\* transform({data, getPluginContext, options}), data.objects being empty
Transform ==
    /\ pc = "bootstrapped"
    /\ IF pluginContext.config # <<>>
       THEN \E results \in QueryResults(pluginContext.files, pluginContext.config[1].models) :
              /\ output' = matchObjectsToModels(pluginContext.files,
                                                pluginContext.config[1].models,
                                                SOURCE, args.mergeDataModels, results)
              /\ ret' = results
       ELSE output' = pluginContext.files /\ ret' = None
    /\ pc' = "transformed"
    /\ UNCHANGED <<args, pluginContext, watch>>

Next == Bootstrap \/ Transform

Spec == Init /\ [][Next]_vars

Matched == pc = "transformed" /\ pluginContext.config # <<>>

\* C1: an object for which model selection fails (getModelByQuery returns an
\* error), or which satisfies neither predicate, is returned at its position
\* unchanged, whatever the other objects of the list are.
C1_PassThrough ==
    Matched =>
        \A i \in 1..Len(pluginContext.files) :
            (\/ ret[i].error
             \/ ~(pageObjectsPredicate(pluginContext.files[i])
                  \/ dataObjectsPredicate(pluginContext.files[i])))
                => output[i] = pluginContext.files[i]

\* C6: with the merge option on, the result is the input objects in their
\* order followed by one merged object, and the merged object carries the
\* seeded __metadata {id: '<source>:data', source}.
C6_MergedAppended ==
    (Matched /\ args.mergeDataModels) =>
        /\ Len(output) = Len(pluginContext.files) + 1
        /\ \A i \in 1..Len(pluginContext.files) :
               /\ has(output[i], "__metadata") /\ has(get(output[i], "__metadata"), "id")
               /\ objectId(output[i]) = objectId(pluginContext.files[i])
        /\ has(output[Len(output)], "__metadata")
        /\ get(output[Len(output)], "__metadata")
               = Obj([id |-> Str("sourcebit-source-filesystem:data"),
                      source |-> Str("sourcebit-source-filesystem")])

\* C9: building the merged object changes no object of the returned list:
\* each element returned with the merge option on equals the element at the
\* same position returned with the option off.
C9_MergeLeavesObjects ==
    (Matched /\ args.mergeDataModels) =>
        \A i \in 1..Len(pluginContext.files) :
            output[i] = matchObjectsToModels(pluginContext.files,
                                             pluginContext.config[1].models, SOURCE, FALSE,
                                             ret)[i]

(***************************************************************************)
(* SpecWatch: bootstrap() in watch mode.  Each watcher event pushes its    *)
(* path to changedFilePaths and calls the debounced update; the debounce   *)
(* timer later invokes the async update, which takes the pushed paths,     *)
(* awaits loadStackbitYaml and/or readFiles, stores what they return in    *)
(* the plugin context and calls refresh().  The invocations are not        *)
(* awaited by the debounce, so several can be in flight.                   *)
(*                                                                         *)
(* The plugin context holds, for 'files' (for 'config'), the number of     *)
(* content-file (stackbit.yaml) events that had happened when the          *)
(* readFiles (loadStackbitYaml) call that produced the entry started.      *)
(***************************************************************************)
MaxEvents == 3

stackbitYamlFileName == "stackbit.yaml"

WatchedPaths == {stackbitYamlFileName, "pages/index.md"}

InitWatch ==
    /\ pc = "watching"
    /\ args = None
    /\ ret = None
    /\ pluginContext = [files |-> 0, config |-> 0]
    /\ output = None
    /\ watch = [changedFilePaths |-> <<>>,   \* the paths pushed, each with its event number
                pending |-> FALSE,           \* debouncedUpdate was called and has not been invoked since
                runs |-> <<>>,               \* the invocations of the async update
                yamlEvents |-> 0,            \* stackbit.yaml events so far
                contentEvents |-> 0,         \* content-file events so far
                refreshes |-> 0]             \* calls of refresh()

EventCount == watch.yamlEvents + watch.contentEvents

includesYaml(copy) == \E i \in 1..Len(copy) : copy[i].path = stackbitYamlFileName
someContent(copy) == \E i \in 1..Len(copy) : copy[i].path # stackbitYamlFileName

\* update(eventName, filePath): push the path, call debouncedUpdate()
FileEvent ==
    /\ pc = "watching"
    /\ EventCount < MaxEvents
    /\ \E filePath \in WatchedPaths :
         watch' = [watch EXCEPT
                     !.changedFilePaths = Append(@, [path |-> filePath, event |-> EventCount + 1]),
                     !.pending = TRUE,
                     !.yamlEvents = IF filePath = stackbitYamlFileName THEN @ + 1 ELSE @,
                     !.contentEvents = IF filePath # stackbitYamlFileName THEN @ + 1 ELSE @]
    /\ UNCHANGED <<pc, args, ret, pluginContext, output>>

\* the debounce invokes the update: it copies and empties changedFilePaths and
\* runs to its first await, inside loadStackbitYaml or readFiles
InvokeUpdate ==
    /\ pc = "watching"
    /\ watch.pending
    /\ LET filePathsCopy == watch.changedFilePaths
           run == IF includesYaml(filePathsCopy)
                  THEN [at |-> "loadStackbitYaml", filePathsCopy |-> filePathsCopy,
                        started |-> watch.yamlEvents]
                  ELSE [at |-> "readFiles", filePathsCopy |-> filePathsCopy,
                        started |-> watch.contentEvents]
       IN watch' = [watch EXCEPT !.changedFilePaths = <<>>, !.pending = FALSE,
                                 !.runs = Append(@, run)]
    /\ UNCHANGED <<pc, args, ret, pluginContext, output>>

\* loadStackbitYaml resolves: the config is stored; then readFiles is called,
\* or refresh() when no content file changed
LoadStackbitYamlDone ==
    /\ pc = "watching"
    /\ \E r \in 1..Len(watch.runs) :
         /\ watch.runs[r].at = "loadStackbitYaml"
         /\ pluginContext' = [pluginContext EXCEPT !.config = watch.runs[r].started]
         /\ IF someContent(watch.runs[r].filePathsCopy)
            THEN watch' = [watch EXCEPT !.runs[r].at = "readFiles",
                                        !.runs[r].started = watch.contentEvents]
            ELSE watch' = [watch EXCEPT !.runs[r].at = "done", !.refreshes = @ + 1]
    /\ UNCHANGED <<pc, args, ret, output>>

\* readFiles resolves: the files are stored and refresh() is called
ReadFilesDone ==
    /\ pc = "watching"
    /\ \E r \in 1..Len(watch.runs) :
         /\ watch.runs[r].at = "readFiles"
         /\ pluginContext' = [pluginContext EXCEPT !.files = watch.runs[r].started]
         /\ watch' = [watch EXCEPT !.runs[r].at = "done", !.refreshes = @ + 1]
    /\ UNCHANGED <<pc, args, ret, output>>

NextWatch == FileEvent \/ InvokeUpdate \/ LoadStackbitYamlDone \/ ReadFilesDone

SpecWatch == InitWatch /\ [][NextWatch]_vars

\* the timer fires and the awaited reads resolve
FairSpecWatch ==
    /\ SpecWatch
    /\ WF_vars(InvokeUpdate) /\ WF_vars(LoadStackbitYamlDone) /\ WF_vars(ReadFilesDone)

\* no update is due or in flight
Quiet ==
    /\ ~watch.pending
    /\ \A r \in 1..Len(watch.runs) : watch.runs[r].at = "done"

\* the number of places (changedFilePaths, or the copy of a run) holding event e
Holders(e) ==
    Cardinality({i \in 1..Len(watch.changedFilePaths) : watch.changedFilePaths[i].event = e})
    + Cardinality({<<r, i>> \in (1..Len(watch.runs)) \X (1..MaxEvents + 1) :
                      /\ i <= Len(watch.runs[r].filePathsCopy)
                      /\ watch.runs[r].filePathsCopy[i].event = e})

\* C10: every pushed path is taken by exactly one run of the update, and once
\* the events have stopped and the updates have finished, 'files' ('config')
\* of the plugin context comes from a readFiles (loadStackbitYaml) call that
\* started after the last content-file (stackbit.yaml) event.
C10_NoStaleData ==
    pc = "watching" =>
        /\ \A e \in 1..EventCount : Holders(e) = 1
        /\ Quiet => /\ pluginContext.files = watch.contentEvents
                    /\ pluginContext.config = watch.yamlEvents

\* every event is followed by a refresh(): the updates all finish, having
\* called refresh() once each
C10_EventuallyRefreshed ==
    [](watch.pending => <>(Quiet /\ watch.refreshes = Len(watch.runs) /\ watch.refreshes > 0))

====
